---- MODULE Spec2Model ----
(***************************************************************************)
(* Transactional stock ledger of the Rapitienda inventory application      *)
(* (firebase_utils.py): complete_order, process_direct_sale, the           *)
(* firestore_retry wrapper, and the repositories save_inventory_item,      *)
(* delete_inventory_item, create_order and cancel_order.                   *)
(*                                                                         *)
(* The document store is three maps: inventory documents, the history      *)
(* sub-collection of each inventory document, and order documents.  A      *)
(* transactional call is run by a caller process in two steps: the body    *)
(* reads a snapshot and stages its writes (Call), then the store commits   *)
(* the staged writes if no document the body read has changed since        *)
(* (Commit) and otherwise runs the body again (Retry).  The repositories   *)
(* read and write the store directly, one document or batch per step.      *)
(***************************************************************************)
EXTENDS Integers, Sequences, FiniteSets, TLC

VARIABLES inv, hist, orders, now, pc, call, snap, last, sold, multi,
          rpc, attempt, delay, slept, invoked, outcome, handling, tried,
          save, del, cancelled, created

vars == <<inv, hist, orders, now, pc, call, snap, last, sold, multi,
          rpc, attempt, delay, slept, invoked, outcome, handling, tried,
          save, del, cancelled, created>>

ledgerVars == <<inv, hist, orders, now, pc, call, snap, last, sold, multi>>
retryVars == <<rpc, attempt, delay, slept, invoked, outcome, handling, tried>>
repoVars == <<save, del, cancelled, created>>

(***************************************************************************)
(* Bounds and input sets                                                   *)
(***************************************************************************)
MaxQty == 3       \* initial stock of item A
MaxCalls == 2     \* calls made in one behaviour
MaxHistory == 41  \* history entries of an item when it is deleted

Procs == {"p1", "p2"}
Items == {"A", "B"}
OrderIds == {"o1", "o2"}      \* ids of orders created with add()
SaleIds == {"s1"}             \* ids chosen by the caller of a direct sale
DocIds == OrderIds \cup SaleIds

None == -1                    \* Python None / field not set
CallerPrice == 1              \* stale price attached by the caller to a line

\* Catalogue prices kept in the store.
SalePriceOf(id) == IF id = "A" THEN 5 ELSE 10
PurchasePriceOf(id) == IF id = "A" THEN 3 ELSE 6
InitQuantity(id) == IF id = "A" THEN MaxQty ELSE 1

\* A line as the caller passes it: id, quantity and a price the caller attached.
SoldItem(id, q) ==
    [id |-> id, quantity |-> q, sale_price |-> CallerPrice, purchase_price |-> CallerPrice]

\* The baskets callers sell or order.
Baskets ==
    { <<SoldItem("A", 1)>>,
      <<SoldItem("A", 2)>>,
      <<SoldItem("A", MaxQty)>>,
      <<SoldItem("A", 1), SoldItem("B", 1)>>,
      <<SoldItem("A", 1), SoldItem("B", 2)>>,
      <<SoldItem("B", 1), SoldItem("A", MaxQty + 1)>>,
      <<SoldItem("A", 2), SoldItem("A", 1)>> }

(***************************************************************************)
(* Documents                                                               *)
(***************************************************************************)
NoItem ==
    [exists |-> FALSE, quantity |-> 0, sale_price |-> 0, purchase_price |-> 0,
     min_stock_alert |-> None]

ItemDoc(id, q, m) ==
    [exists |-> TRUE, quantity |-> q, sale_price |-> SalePriceOf(id),
     purchase_price |-> PurchasePriceOf(id), min_stock_alert |-> m]

NoOrder ==
    [exists |-> FALSE, ingredients |-> <<>>, status |-> "none", completed_at |-> None,
     price |-> 0, is_direct_sale |-> FALSE]

RECURSIVE SumSeq(_)
SumSeq(s) == IF s = <<>> THEN 0 ELSE Head(s) + SumSeq(Tail(s))

\* Quantity a basket requests of item id, over all its lines.
Requested(lines, id) ==
    SumSeq([k \in 1..Len(lines) |-> IF lines[k].id = id THEN lines[k].quantity ELSE 0])

\* Some item is named by more than one line.
NamesTwice(lines) ==
    \E j, k \in 1..Len(lines) : j # k /\ lines[j].id = lines[k].id

\* An order as app.py stores it before completing it: status processing,
\* completed_at already carrying the creation time.
ProcessingOrder(lines) ==
    [exists |-> TRUE, ingredients |-> lines, status |-> "processing", completed_at |-> 0,
     price |-> SumSeq([k \in 1..Len(lines) |-> lines[k].sale_price * lines[k].quantity]),
     is_direct_sale |-> FALSE]

(***************************************************************************)
(* The transaction bodies                                                  *)
(***************************************************************************)
\* raise ValueError(...): the body stops, nothing is staged.
Raise(kind, id, available) ==
    [raised |-> TRUE, kind |-> kind, item |-> id, available |-> available,
     items_to_update |-> <<>>]

\* The stock check off by one: a request one above the stock passes.
InsufficientStockOffByOne(current_quantity, requested) == current_quantity + 1 < requested

\* current_quantity < requested: the stock check of both bodies.
InsufficientStock(current_quantity, requested) == current_quantity < requested

\* The first loop of both bodies: read each line's inventory document from the
\* snapshot, fail on the first missing item or insufficient stock, and
\* otherwise collect the update of the line.
RECURSIVE verify_stock(_, _, _, _)
verify_stock(dbinv, lines, k, items_to_update) ==
    IF k > Len(lines)
    THEN [raised |-> FALSE, kind |-> "ok", item |-> "", available |-> 0,
          items_to_update |-> items_to_update]
    ELSE LET ing == lines[k]
             item_data == dbinv[ing.id]
             current_quantity == item_data.quantity
         IN  IF ~item_data.exists
             THEN Raise("ItemNotFound", ing.id, 0)
             ELSE IF InsufficientStock(current_quantity, ing.quantity)
             THEN Raise("InsufficientStock", ing.id, current_quantity)
             ELSE verify_stock(dbinv, lines, k + 1,
                      Append(items_to_update,
                             [id |-> ing.id,
                              new_quantity |-> current_quantity - ing.quantity,
                              item_data |-> item_data,
                              ing_quantity |-> ing.quantity]))

\* if min_stock_alert and 0 < new_quantity <= min_stock_alert
LowStock(min_stock_alert, new_quantity) ==
    /\ min_stock_alert # None
    /\ min_stock_alert # 0
    /\ 0 < new_quantity
    /\ new_quantity <= min_stock_alert

\* The alert strings of the second loop, one per line that meets LowStock; an
\* alert names the item, the line's new quantity and the threshold.
RECURSIVE low_stock_alerts(_, _)
low_stock_alerts(items_to_update, k) ==
    IF k > Len(items_to_update) THEN <<>>
    ELSE LET u == items_to_update[k]
             here == IF LowStock(u.item_data.min_stock_alert, u.new_quantity)
                     THEN << [item |-> u.id, new_quantity |-> u.new_quantity,
                              min_stock_alert |-> u.item_data.min_stock_alert] >>
                     ELSE <<>>
         IN  here \o low_stock_alerts(items_to_update, k + 1)

\* The lines a direct sale stores: the caller's id and quantity with the
\* store's prices.
enriched_ingredients(items_to_update) ==
    [k \in 1..Len(items_to_update) |->
        [id |-> items_to_update[k].id,
         quantity |-> items_to_update[k].ing_quantity,
         sale_price |-> items_to_update[k].item_data.sale_price,
         purchase_price |-> items_to_update[k].item_data.purchase_price]]

\* The total computed from the price the caller attached to each line.
total_price_from_caller(items_to_update) ==
    SumSeq([k \in 1..Len(items_to_update) |-> CallerPrice * items_to_update[k].ing_quantity])

\* total_price += sale_price * quantity, over the lines.
total_price(items_to_update) ==
    SumSeq([k \in 1..Len(items_to_update) |->
               items_to_update[k].item_data.sale_price * items_to_update[k].ing_quantity])

\* What a body hands to the transaction: whether it raised, and if not the
\* staged inventory updates, the history type, the order write and the alerts.
Staged(v, htype, details, order_id, order_op, order_doc) ==
    [raised |-> v.raised, kind |-> v.kind, item |-> v.item, available |-> v.available,
     items_to_update |-> v.items_to_update, history_type |-> htype, details |-> details,
     order_id |-> order_id, order_op |-> order_op, order_doc |-> order_doc,
     alerts |-> IF v.raised THEN <<>> ELSE low_stock_alerts(v.items_to_update, 1)]

\* _complete_order_atomic(transaction, db, order_id), run on the snapshot db at
\* time t.
complete_order_atomic(db, order_id, t) ==
    LET order_snapshot == db.orders[order_id]
    IN  IF ~order_snapshot.exists
        THEN Staged(Raise("OrderNotFound", "", 0), "", "", order_id, "none", NoOrder)
        ELSE Staged(verify_stock(db.inv, order_snapshot.ingredients, 1, <<>>),
                    "Venta Completada", order_id, order_id, "update",
                    [NoOrder EXCEPT !.status = "completed", !.completed_at = t])

\* _process_direct_sale_atomic(transaction, db, items_sold, sale_id, payment_data),
\* run on the snapshot db at time t.
process_direct_sale_atomic(db, items_sold, sale_id, t) ==
    LET v == verify_stock(db.inv, items_sold, 1, <<>>)
    IN  Staged(v, "Venta Directa", sale_id, sale_id, "set",
               [exists |-> TRUE,
                ingredients |-> enriched_ingredients(v.items_to_update),
                status |-> "completed",
                completed_at |-> t,
                price |-> total_price(v.items_to_update),
                is_direct_sale |-> TRUE])

\* The body of a call c on the snapshot db.
Body(c, db) ==
    IF c.op = "complete_order"
    THEN complete_order_atomic(db, c.order_id, c.time)
    ELSE process_direct_sale_atomic(db, c.items_sold, c.order_id, c.time)

(***************************************************************************)
(* Commit of the staged writes                                             *)
(***************************************************************************)
\* transaction.update(ref, {'quantity': new_quantity}) for every staged line,
\* in order.
RECURSIVE write_quantities(_, _, _)
write_quantities(i, items_to_update, k) ==
    IF k > Len(items_to_update) THEN i
    ELSE LET u == items_to_update[k]
         IN  write_quantities([i EXCEPT ![u.id].quantity = u.new_quantity],
                              items_to_update, k + 1)

\* The history entry records the quantity sold without its sign.
quantity_change_unsigned(ing_quantity) == ing_quantity

\* "quantity_change": -ing_quantity
quantity_change(ing_quantity) == 0 - ing_quantity

\* transaction.set(history_ref, history_data) for every staged line, in order.
RECURSIVE write_history(_, _, _, _, _)
write_history(h, items_to_update, htype, details, k) ==
    IF k > Len(items_to_update) THEN h
    ELSE LET u == items_to_update[k]
             history_data == [type |-> htype, quantity_change |-> quantity_change(u.ing_quantity),
                              details |-> details]
         IN  write_history([h EXCEPT ![u.id] = Append(@, history_data)],
                           items_to_update, htype, details, k + 1)

\* The order document of a direct sale is not staged: only updates are written.
write_order_update_only(o, s) ==
    IF s.order_op = "update"
    THEN [o EXCEPT ![s.order_id].status = s.order_doc.status,
                   ![s.order_id].completed_at = s.order_doc.completed_at]
    ELSE o

\* transaction.update(order_ref, {status, completed_at}) or
\* transaction.set(order_ref, order_data).
write_order(o, s) ==
    IF s.order_op = "update"
    THEN [o EXCEPT ![s.order_id].status = s.order_doc.status,
                   ![s.order_id].completed_at = s.order_doc.completed_at]
    ELSE IF s.order_op = "set"
    THEN [o EXCEPT ![s.order_id] = s.order_doc]
    ELSE o

\* The store after the transaction ends: all staged writes if the body
\* returned, none if it raised.
CommitStore(store, s) ==
    IF s.raised THEN store
    ELSE [inv |-> write_quantities(store.inv, s.items_to_update, 1),
          hist |-> write_history(store.hist, s.items_to_update, s.history_type,
                                 s.details, 1),
          orders |-> write_order(store.orders, s)]

\* The documents a call's body reads: the order (complete_order only) and the
\* inventory document of every line it reaches.
ReadItems(c, db) ==
    LET lines == IF c.op = "complete_order" THEN db.orders[c.order_id].ingredients
                 ELSE c.items_sold
    IN  {lines[k].id : k \in 1..Len(lines)}

\* The writes are committed without comparing what the body read.
NoConflict(c, db, store) == FALSE

\* The store aborts a commit when a document the transaction read was written
\* by another transaction in between.
Conflict(c, db, store) ==
    \/ c.op = "complete_order" /\ db.orders[c.order_id] # store.orders[c.order_id]
    \/ \E id \in ReadItems(c, db) : db.inv[id] # store.inv[id]

(***************************************************************************)
(* The callers' wrappers                                                   *)
(***************************************************************************)
\* What the caller of complete_order / process_direct_sale gets.
Returned(ok, kind, id, available, alerts) ==
    [raised |-> FALSE, ok |-> ok, kind |-> kind, item |-> id, available |-> available,
     alerts |-> alerts]

\* complete_order without its try/except: the exception reaches the caller.
complete_order_no_except(s) ==
    IF s.raised
    THEN [raised |-> TRUE, ok |-> FALSE, kind |-> s.kind, item |-> s.item,
          available |-> s.available, alerts |-> <<>>]
    ELSE Returned(TRUE, "ok", "", 0, s.alerts)

\* FirebaseManager.complete_order: try the transaction, on any exception
\* return (False, message, []).
complete_order(s) ==
    IF s.raised THEN Returned(FALSE, s.kind, s.item, s.available, <<>>)
    ELSE Returned(TRUE, "ok", "", 0, s.alerts)

\* FirebaseManager.process_direct_sale: the same shape.
process_direct_sale(s) ==
    IF s.raised THEN Returned(FALSE, s.kind, s.item, s.available, <<>>)
    ELSE Returned(TRUE, "ok", "", 0, s.alerts)

Wrapper(c, s) == IF c.op = "complete_order" THEN complete_order(s) ELSE process_direct_sale(s)

\* An exception raised by the store itself inside the transaction (lost
\* connection, deadline, too much contention).
StoreError(c) ==
    Staged(Raise("StoreError", "", 0), "", "", c.order_id, "none", NoOrder)

(***************************************************************************)
(* State                                                                   *)
(***************************************************************************)
Store == [inv |-> inv, hist |-> hist, orders |-> orders]

NoCall == [op |-> "none", order_id |-> "", items_sold |-> <<>>, time |-> 0]
NoSnap == [inv |-> [i \in Items |-> NoItem], orders |-> [d \in DocIds |-> NoOrder]]
NoResult == Returned(FALSE, "none", "", 0, <<>>)

\* The lines a call asks for: the order's lines, or the basket sold.
LinesOf(c, o) == IF c.op = "complete_order" THEN o[c.order_id].ingredients ELSE c.items_sold

\* The calls a caller can make at time t.
Calls(t) ==
    [op : {"complete_order"}, order_id : DocIds, items_sold : {<<>>}, time : {t}]
    \cup [op : {"process_direct_sale"}, order_id : SaleIds, items_sold : Baskets, time : {t}]

InitialStock(id) ==
    [type |-> "Stock Inicial", quantity_change |-> InitQuantity(id),
     details |-> "Item creado en el sistema."]

\* The store holds item A with threshold m, item B if b, and the order o1
\* with the given lines, waiting to be completed; no call is in progress.
LedgerInitWith(m, b, lines) ==
    /\ inv = [i \in Items |->
                IF i = "A" THEN ItemDoc("A", InitQuantity("A"), m)
                ELSE IF b THEN ItemDoc("B", InitQuantity("B"), None) ELSE NoItem]
    /\ hist = [i \in Items |-> IF i = "A" \/ b THEN <<InitialStock(i)>> ELSE <<>>]
    /\ orders = [d \in DocIds |-> IF d = "o1" THEN ProcessingOrder(lines) ELSE NoOrder]
    /\ now = 0
    /\ pc = [p \in Procs |-> "idle"]
    /\ call = [p \in Procs |-> NoCall]
    /\ snap = [p \in Procs |-> NoSnap]
    /\ last = [call |-> NoCall, pre |-> Store, post |-> Store, result |-> NoResult]
    /\ sold = [i \in Items |-> 0]
    /\ multi = FALSE

LedgerInit == \E m \in {None, 0, 1}, b \in BOOLEAN, lines \in Baskets : LedgerInitWith(m, b, lines)

(***************************************************************************)
(* Ledger actions                                                          *)
(***************************************************************************)
\* The call c of process p returns to its caller: the store is what the
\* transaction left, and the ledger of successful calls is extended.
Return(p, c, s, post) ==
    LET r == Wrapper(c, s)
        lines == LinesOf(c, orders)
    IN  /\ inv' = post.inv
        /\ hist' = post.hist
        /\ orders' = post.orders
        /\ last' = [call |-> c, pre |-> Store, post |-> post, result |-> r]
        /\ sold' = [i \in Items |-> IF r.ok THEN sold[i] + Requested(lines, i) ELSE sold[i]]
        /\ multi' = (multi \/ (r.ok /\ NamesTwice(lines)))
        /\ pc' = [pc EXCEPT ![p] = "idle"]
        /\ call' = [call EXCEPT ![p] = NoCall]
        /\ snap' = [snap EXCEPT ![p] = NoSnap]

\* A caller invokes complete_order(order_id) or process_direct_sale(items,
\* sale_id); the body runs on the current documents and stages its writes.
Call(p) ==
    /\ pc[p] = "idle"
    /\ now < MaxCalls
    /\ \E c \in Calls(now + 1) :
          /\ ~Body(c, Store).raised
          /\ call' = [call EXCEPT ![p] = c]
    /\ snap' = [snap EXCEPT ![p] = [inv |-> inv, orders |-> orders]]
    /\ pc' = [pc EXCEPT ![p] = "commit"]
    /\ now' = now + 1
    /\ UNCHANGED <<inv, hist, orders, last, sold, multi>>

\* A caller invokes a call whose body raises: the transaction is rolled back
\* and the wrapper returns.
CallAbort(p) ==
    /\ pc[p] = "idle"
    /\ now < MaxCalls
    /\ \E c \in Calls(now + 1) :
          /\ Body(c, Store).raised
          /\ Return(p, c, Body(c, Store), CommitStore(Store, Body(c, Store)))
    /\ now' = now + 1

\* No document the body read has changed: the staged writes are committed.
Commit(p) ==
    /\ pc[p] = "commit"
    /\ ~Conflict(call[p], snap[p], Store)
    /\ Return(p, call[p], Body(call[p], snap[p]),
              CommitStore(Store, Body(call[p], snap[p])))
    /\ UNCHANGED now

\* A document the body read has changed: the store runs the body again, which
\* stages its writes anew.
Retry(p) ==
    /\ pc[p] = "commit"
    /\ Conflict(call[p], snap[p], Store)
    /\ ~Body(call[p], Store).raised
    /\ snap' = [snap EXCEPT ![p] = [inv |-> inv, orders |-> orders]]
    /\ UNCHANGED <<inv, hist, orders, now, pc, call, last, sold, multi>>

\* A document the body read has changed and the body, run again, raises.
RetryAbort(p) ==
    /\ pc[p] = "commit"
    /\ Conflict(call[p], snap[p], Store)
    /\ Body(call[p], Store).raised
    /\ Return(p, call[p], Body(call[p], Store),
              CommitStore(Store, Body(call[p], Store)))
    /\ UNCHANGED now

\* The store fails inside the transaction: nothing is committed.
TxnError(p) ==
    /\ pc[p] = "commit"
    /\ Return(p, call[p], StoreError(call[p]), CommitStore(Store, StoreError(call[p])))
    /\ UNCHANGED now

(***************************************************************************)
(* firestore_retry                                                         *)
(***************************************************************************)
max_retries == 3
first_delay == 1

\* What the wrapped operation can do on one attempt.
Errors == {"Unavailable", "DeadlineExceeded", "Aborted"}
Results == {"r1", "r2"}

\* The delay grows by one instead of doubling.
next_delay_linear(d) == d + 1

\* delay *= 2
next_delay(d) == d * 2

\* The bare raise after the loop: no exception is being handled there any more,
\* so Python raises RuntimeError("No active exception to reraise"), or raises
\* again the exception the caller's frame is handling, if it is handling one.
bare_raise(h) == IF h = "none" THEN "RuntimeError" ELSE h

\* No wrapper call is in progress.
RetryIdle ==
    /\ rpc = "idle" /\ attempt = 0 /\ delay = 0 /\ slept = <<>> /\ invoked = 0
    /\ outcome = [kind |-> "none", value |-> ""] /\ handling = "none" /\ tried = <<>>

\* wrapper(*args, **kwargs) is entered, from a frame that handles the
\* exception h or none.
RetryCall ==
    /\ rpc = "idle"
    /\ \E h \in {"none", "OuterError"} : handling' = h
    /\ attempt' = 0
    /\ delay' = first_delay
    /\ rpc' = "try"
    /\ UNCHANGED <<slept, invoked, outcome, tried>>

\* return func(*args, **kwargs): the attempt succeeds.
AttemptReturns ==
    /\ rpc = "try"
    /\ \E r \in Results :
          /\ outcome' = [kind |-> "return", value |-> r]
          /\ tried' = Append(tried, [kind |-> "return", value |-> r])
    /\ invoked' = invoked + 1
    /\ rpc' = "returned"
    /\ UNCHANGED <<attempt, delay, slept, handling>>

\* func raises: the except clause is entered.
AttemptRaises ==
    /\ rpc = "try"
    /\ \E e \in Errors : tried' = Append(tried, [kind |-> "raise", value |-> e])
    /\ invoked' = invoked + 1
    /\ rpc' = "except"
    /\ UNCHANGED <<attempt, delay, slept, outcome, handling>>

\* time.sleep(delay); delay *= 2; next iteration of the for loop, or its end.
Sleep ==
    /\ rpc = "except"
    /\ slept' = Append(slept, delay)
    /\ delay' = next_delay(delay)
    /\ attempt' = attempt + 1
    /\ rpc' = IF attempt + 1 < max_retries THEN "try" ELSE "exhausted"
    /\ UNCHANGED <<invoked, outcome, handling, tried>>

\* logger.error(...); raise
Exhausted ==
    /\ rpc = "exhausted"
    /\ outcome' = [kind |-> "raise", value |-> bare_raise(handling)]
    /\ rpc' = "raised"
    /\ UNCHANGED <<attempt, delay, slept, invoked, handling, tried>>

RetryNext ==
    \/ RetryCall /\ UNCHANGED <<ledgerVars, repoVars>>
    \/ AttemptReturns /\ UNCHANGED <<ledgerVars, repoVars>>
    \/ AttemptRaises /\ UNCHANGED <<ledgerVars, repoVars>>
    \/ Sleep /\ UNCHANGED <<ledgerVars, repoVars>>
    \/ Exhausted /\ UNCHANGED <<ledgerVars, repoVars>>

(***************************************************************************)
(* The repositories: save_inventory_item, delete_inventory_item,           *)
(* create_order and cancel_order.  None of them runs in a transaction:     *)
(* every read and every write is a step of its own on the store.           *)
(***************************************************************************)
batch_size == 20

\* The data a caller saves: a field that is None is a key the dict omits.
NoData == [quantity |-> None, sale_price |-> None]

\* The save_inventory_item calls made: a price edit of item A that omits the
\* quantity, a stock edit of item A, and the creation of item B.
SaveCalls ==
    {[data |-> [quantity |-> None, sale_price |-> SalePriceOf("A") + 2],
      custom_id |-> "A", is_new |-> FALSE],
     [data |-> [quantity |-> MaxQty, sale_price |-> None],
      custom_id |-> "A", is_new |-> FALSE],
     [data |-> [quantity |-> 2, sale_price |-> SalePriceOf("B")],
      custom_id |-> "B", is_new |-> TRUE]}

\* The lines of the orders created: one item, and one item with an item that
\* may be missing.
CreateBaskets ==
    { <<SoldItem("A", 1)>>,
      <<SoldItem("A", 2), SoldItem("B", 1)>> }

\* doc_ref.set(data): the document becomes the data, every other field is lost.
set_no_merge(doc, data) ==
    [exists |-> TRUE,
     quantity |-> IF data.quantity # None THEN data.quantity ELSE 0,
     sale_price |-> IF data.sale_price # None THEN data.sale_price ELSE 0,
     purchase_price |-> 0,
     min_stock_alert |-> None]

\* doc_ref.set(data, merge=True): the keys of data are written, the other
\* fields of the document are kept, a missing document is created.
set_merge(doc, data) ==
    [exists |-> TRUE,
     quantity |-> IF data.quantity # None THEN data.quantity ELSE doc.quantity,
     sale_price |-> IF data.sale_price # None THEN data.sale_price ELSE doc.sale_price,
     purchase_price |-> doc.purchase_price,
     min_stock_alert |-> doc.min_stock_alert]

\* The history entry of a save: the quantity in data, None if data has none.
history_data(data, is_new) ==
    [type |-> IF is_new THEN "Stock Inicial" ELSE "Ajuste Manual",
     quantity_change |-> data.quantity,
     details |-> IF is_new THEN "Item creado en el sistema."
                 ELSE "Item actualizado manualmente."]

\* The recursion never continues after a page.
deleted_full_page_strict(deleted) == deleted > batch_size

\* if deleted >= batch_size: delete the next page.
deleted_full_page(deleted) == deleted >= batch_size

\* coll_ref.limit(batch_size).stream(): at most batch_size documents of the
\* sub-collection (here the oldest ones).
limit_stream(h) == SubSeq(h, 1, IF Len(h) < batch_size THEN Len(h) ELSE batch_size)

\* get_inventory_item_details(doc_id): the item, or None.
get_inventory_item_details(i, doc_id) == i[doc_id]

\* The first loop of create_order: a line whose item exists gets the store's
\* prices, a line whose item is missing keeps the prices the caller attached.
create_enriched_ingredients(i, ingredients) ==
    [k \in 1..Len(ingredients) |->
        LET ing == ingredients[k]
            item_details == get_inventory_item_details(i, ing.id)
        IN  IF item_details.exists
            THEN [ing EXCEPT !.purchase_price = item_details.purchase_price,
                             !.sale_price = item_details.sale_price]
            ELSE ing]

\* The order data a caller passes to create_order: the lines with the prices
\* the caller attached and the total the caller computed from them.
OrderData(lines) ==
    [exists |-> TRUE, ingredients |-> lines, status |-> "processing", completed_at |-> None,
     price |-> SumSeq([k \in 1..Len(lines) |-> lines[k].sale_price * lines[k].quantity]),
     is_direct_sale |-> FALSE]

NoSave ==
    [pc |-> "idle", data |-> NoData, custom_id |-> "", is_new |-> FALSE, attempt |-> 0,
     stored |-> None, appended |-> <<>>]
NoDelete ==
    [pc |-> "idle", doc_id |-> "", n0 |-> 0, queries |-> 0, commits |-> <<>>,
     doc_deletes |-> 0]
NoCreated == [id |-> "", inv |-> [i \in Items |-> NoItem], order_data |-> NoOrder]

\* No repository call has been made.
RepoIdle ==
    /\ save = NoSave
    /\ del = NoDelete
    /\ cancelled = [d \in DocIds |-> "none"]
    /\ created = NoCreated

\* A call is made at the next tick of the clock.
Tick == now < MaxCalls /\ now' = now + 1

\* save_inventory_item(data, custom_id, is_new) is called through
\* firestore_retry: the first attempt starts.
SaveCall ==
    /\ save.pc = "idle"
    /\ Tick
    /\ \E c \in SaveCalls :
          save' = [NoSave EXCEPT !.pc = "set", !.data = c.data, !.custom_id = c.custom_id,
                                 !.is_new = c.is_new]
    /\ UNCHANGED <<inv, hist, orders, del, cancelled, created>>

\* doc_ref.set(data, merge=True)
SaveSet ==
    /\ save.pc = "set"
    /\ inv' = [inv EXCEPT ![save.custom_id] = set_merge(@, save.data)]
    /\ save' = [save EXCEPT !.pc = "add",
                            !.stored = set_merge(inv[save.custom_id], save.data).quantity]
    /\ UNCHANGED <<hist, orders, now, del, cancelled, created>>

\* doc_ref.collection('history').add(history_data); the function returns.
SaveAdd ==
    /\ save.pc = "add"
    /\ hist' = [hist EXCEPT ![save.custom_id] = Append(@, history_data(save.data, save.is_new))]
    /\ save' = [save EXCEPT !.pc = "returned",
                            !.appended = Append(@, history_data(save.data, save.is_new))]
    /\ UNCHANGED <<inv, orders, now, del, cancelled, created>>

\* set() or add() raises and nothing was written: the except clause of the
\* wrapper is entered.
SaveRaises ==
    /\ save.pc \in {"set", "add"}
    /\ save' = [save EXCEPT !.pc = "except"]
    /\ UNCHANGED <<inv, hist, orders, now, del, cancelled, created>>

\* add() raises although the store has written the entry (the acknowledgement
\* is lost, the deadline passes).
SaveAddLost ==
    /\ save.pc = "add"
    /\ hist' = [hist EXCEPT ![save.custom_id] = Append(@, history_data(save.data, save.is_new))]
    /\ save' = [save EXCEPT !.pc = "except",
                            !.appended = Append(@, history_data(save.data, save.is_new))]
    /\ UNCHANGED <<inv, orders, now, del, cancelled, created>>

\* The wrapper sleeps and runs the whole function again, or gives up after
\* max_retries attempts.
SaveRetry ==
    /\ save.pc = "except"
    /\ save' = [save EXCEPT !.attempt = @ + 1,
                            !.pc = IF save.attempt + 1 < max_retries THEN "set" ELSE "raised"]
    /\ UNCHANGED <<inv, hist, orders, now, del, cancelled, created>>

\* delete_inventory_item(doc_id) is called.
DeleteCall ==
    /\ del.pc = "idle"
    /\ Tick
    /\ \E id \in Items :
          del' = [NoDelete EXCEPT !.pc = "page", !.doc_id = id, !.n0 = Len(hist[id])]
    /\ UNCHANGED <<inv, hist, orders, save, cancelled, created>>

\* _delete_collection_batch: read a page of the history, delete it in one
\* batch if it is not empty, and go on if the page was full.
DeletePage ==
    /\ del.pc = "page"
    /\ LET docs == limit_stream(hist[del.doc_id])
           deleted == Len(docs)
       IN  /\ hist' = [hist EXCEPT ![del.doc_id] = SubSeq(@, deleted + 1, Len(@))]
           /\ del' = [del EXCEPT !.queries = @ + 1,
                                 !.commits = IF deleted > 0 THEN Append(@, deleted) ELSE @,
                                 !.pc = IF deleted_full_page(deleted) THEN "page" ELSE "doc"]
    /\ UNCHANGED <<inv, orders, now, save, cancelled, created>>

\* doc_ref.delete(); the function returns.
DeleteDoc ==
    /\ del.pc = "doc"
    /\ inv' = [inv EXCEPT ![del.doc_id] = NoItem]
    /\ del' = [del EXCEPT !.doc_deletes = @ + 1, !.pc = "returned"]
    /\ UNCHANGED <<hist, orders, now, save, cancelled, created>>

\* The store fails in a query, a batch or the delete: the exception is
\* logged and raised again.
DeleteRaises ==
    /\ del.pc \in {"page", "doc"}
    /\ del' = [del EXCEPT !.pc = "raised"]
    /\ UNCHANGED <<inv, hist, orders, now, save, cancelled, created>>

\* create_order(order_data): the lines are enriched from the inventory and the
\* order is added under an id that was never used.  An attempt that raises
\* has written nothing and is run again by firestore_retry.
Create ==
    /\ Tick
    /\ \E lines \in CreateBaskets, d \in OrderIds :
          /\ ~orders[d].exists
          /\ cancelled[d] = "none"
          /\ orders' = [orders EXCEPT ![d] =
                           [OrderData(lines) EXCEPT
                               !.ingredients = create_enriched_ingredients(inv, lines)]]
          /\ created' = [id |-> d, inv |-> inv, order_data |-> OrderData(lines)]
    /\ UNCHANGED <<inv, hist, save, del, cancelled>>

\* cancel_order(order_id): the order document is deleted, whatever its status.
Cancel ==
    /\ Tick
    /\ \E d \in DocIds :
          /\ orders[d].exists
          /\ orders' = [orders EXCEPT ![d] = NoOrder]
          /\ cancelled' = [cancelled EXCEPT ![d] = orders[d].status]
    /\ UNCHANGED <<inv, hist, save, del, created>>

\* The variables of the ledger's callers and of the ledger of successful calls.
callVars == <<pc, call, snap, last, sold, multi>>

RepoNext ==
    \/ Call("p1") /\ UNCHANGED <<retryVars, repoVars>>
    \/ CallAbort("p1") /\ UNCHANGED <<retryVars, repoVars>>
    \/ Commit("p1") /\ UNCHANGED <<retryVars, repoVars>>
    \/ Retry("p1") /\ UNCHANGED <<retryVars, repoVars>>
    \/ RetryAbort("p1") /\ UNCHANGED <<retryVars, repoVars>>
    \/ TxnError("p1") /\ UNCHANGED <<retryVars, repoVars>>
    \/ SaveCall /\ UNCHANGED <<callVars, retryVars>>
    \/ SaveSet /\ UNCHANGED <<callVars, retryVars>>
    \/ SaveAdd /\ UNCHANGED <<callVars, retryVars>>
    \/ SaveRaises /\ UNCHANGED <<callVars, retryVars>>
    \/ SaveAddLost /\ UNCHANGED <<callVars, retryVars>>
    \/ SaveRetry /\ UNCHANGED <<callVars, retryVars>>
    \/ DeleteCall /\ UNCHANGED <<callVars, retryVars>>
    \/ DeletePage /\ UNCHANGED <<callVars, retryVars>>
    \/ DeleteDoc /\ UNCHANGED <<callVars, retryVars>>
    \/ DeleteRaises /\ UNCHANGED <<callVars, retryVars>>
    \/ Create /\ UNCHANGED <<callVars, retryVars>>
    \/ Cancel /\ UNCHANGED <<callVars, retryVars>>

DeleteNext ==
    \/ DeleteCall /\ UNCHANGED <<callVars, retryVars>>
    \/ DeletePage /\ UNCHANGED <<callVars, retryVars>>
    \/ DeleteDoc /\ UNCHANGED <<callVars, retryVars>>
    \/ DeleteRaises /\ UNCHANGED <<callVars, retryVars>>

\* A history of n entries: the initial stock and n - 1 sales of one unit.
HistoryOf(id, n) ==
    [k \in 1..n |->
        IF k = 1 THEN InitialStock(id)
        ELSE [type |-> "Venta Directa", quantity_change |-> quantity_change(1),
              details |-> "s1"]]

(***************************************************************************)
(* Specifications                                                          *)
(***************************************************************************)
Init == LedgerInit /\ RetryIdle /\ RepoIdle

Next ==
    \E p \in Procs :
        \/ Call(p) /\ UNCHANGED <<retryVars, repoVars>>
        \/ CallAbort(p) /\ UNCHANGED <<retryVars, repoVars>>
        \/ Commit(p) /\ UNCHANGED <<retryVars, repoVars>>
        \/ Retry(p) /\ UNCHANGED <<retryVars, repoVars>>
        \/ RetryAbort(p) /\ UNCHANGED <<retryVars, repoVars>>
        \/ TxnError(p) /\ UNCHANGED <<retryVars, repoVars>>

\* The ledger under concurrent callers.
Spec == Init /\ [][Next]_vars

\* One call through the retry wrapper, the store at rest.
InitRetry == LedgerInitWith(None, TRUE, <<SoldItem("A", 1)>>) /\ RetryIdle /\ RepoIdle

SpecRetry == InitRetry /\ [][RetryNext]_vars

\* The repositories next to one caller of the ledger: item A only, one order
\* waiting to be completed.
InitRepo == LedgerInitWith(1, FALSE, <<SoldItem("A", 1)>>) /\ RetryIdle /\ RepoIdle

SpecRepo == InitRepo /\ [][RepoNext]_vars

\* delete_inventory_item alone: the histories of A and B have every length up
\* to MaxHistory, no order exists.
InitDelete ==
    /\ \E n \in 0..MaxHistory :
          hist = [i \in Items |-> IF i = "A" THEN HistoryOf(i, n)
                                  ELSE HistoryOf(i, MaxHistory - n)]
    /\ inv = [i \in Items |-> ItemDoc(i, InitQuantity(i), None)]
    /\ orders = [d \in DocIds |-> NoOrder]
    /\ now = 0
    /\ pc = [p \in Procs |-> "idle"]
    /\ call = [p \in Procs |-> NoCall]
    /\ snap = [p \in Procs |-> NoSnap]
    /\ last = [call |-> NoCall, pre |-> Store, post |-> Store, result |-> NoResult]
    /\ sold = [i \in Items |-> 0]
    /\ multi = FALSE
    /\ RetryIdle
    /\ RepoIdle

SpecDelete == InitDelete /\ [][DeleteNext]_vars

(***************************************************************************)
(* Properties of the ledger.  last is the call that returned last: its     *)
(* arguments, the store just before it returned (the documents its body    *)
(* read), the store just after, and what the caller got.                   *)
(***************************************************************************)
LastLines == LinesOf(last.call, last.pre.orders)
LastIsComplete == last.call.op = "complete_order"
LastIsSale == last.call.op = "process_direct_sale"
LastUnchanged == last.post = last.pre
LastStoreFailed == last.result.kind = "StoreError"

\* Line k names an item that exists and asks for more than it has.
AsksTooMuch(k) ==
    /\ last.pre.inv[LastLines[k].id].exists
    /\ LastLines[k].quantity > last.pre.inv[LastLines[k].id].quantity

\* Line k names an item that does not exist.
NamesMissing(k) == ~last.pre.inv[LastLines[k].id].exists

\* The first line that cannot be served.
FirstFailing ==
    CHOOSE k \in 1..Len(LastLines) :
        /\ AsksTooMuch(k) \/ NamesMissing(k)
        /\ \A j \in 1..(k - 1) : ~(AsksTooMuch(j) \/ NamesMissing(j))

\* The history entries the last call appended to item i.
Appended(i) ==
    SubSeq(last.post.hist[i], Len(last.pre.hist[i]) + 1, Len(last.post.hist[i]))

\* Sum over the items of the quantity_change of the appended entries.
AppendedChange(i) ==
    SumSeq([k \in 1..Len(Appended(i)) |-> Appended(i)[k].quantity_change])

\* C1 as stated: a complete_order call on an order with a line that asks for
\* more than the item has returns ok=false with the insufficient-stock message
\* and no alerts, and leaves the store unchanged.
C1_Original ==
    (/\ LastIsComplete
     /\ ~LastStoreFailed
     /\ \E k \in 1..Len(LastLines) : AsksTooMuch(k))
    => /\ ~last.result.ok
       /\ last.result.kind = "InsufficientStock"
       /\ last.result.alerts = <<>>
       /\ LastUnchanged

\* C1 amended: such a call returns ok=false with no alerts and leaves the store
\* unchanged; unless the store itself failed, its message is that of the first
\* line that cannot be served: insufficient stock for that line's item, or item
\* not found when that line names a missing item.
C1_InsufficientStockFailsClosed ==
    (/\ LastIsComplete
     /\ \E k \in 1..Len(LastLines) : AsksTooMuch(k))
    => /\ ~last.result.raised
       /\ ~last.result.ok
       /\ last.result.alerts = <<>>
       /\ LastUnchanged
       /\ ~LastStoreFailed =>
             /\ last.result.item = LastLines[FirstFailing].id
             /\ last.result.kind =
                   IF NamesMissing(FirstFailing) THEN "ItemNotFound" ELSE "InsufficientStock"
             /\ ~NamesMissing(FirstFailing) =>
                   last.result.available = last.pre.inv[LastLines[FirstFailing].id].quantity

\* An order whose first line passed validation and whose second line asked for
\* too much was refused.
C1_Witness ==
    /\ LastIsComplete
    /\ Len(LastLines) = 2
    /\ ~AsksTooMuch(1) /\ ~NamesMissing(1)
    /\ AsksTooMuch(2)
    /\ last.result.kind = "InsufficientStock"

\* C2: under concurrent complete_order and process_direct_sale calls no
\* quantity is ever negative; a call with one line asking for exactly the
\* quantity in stock succeeds and leaves 0; and, as long as every successful
\* call named each item in one line, each quantity is the initial quantity
\* minus what the successful calls asked for.
C2_SerializedDecrements ==
    /\ \A i \in Items : inv[i].quantity >= 0
    /\ ~multi => \A i \in Items : inv[i].exists => inv[i].quantity = InitQuantity(i) - sold[i]
    /\ (/\ last.call.op # "none"
        /\ ~LastStoreFailed
        /\ LastIsComplete => last.pre.orders[last.call.order_id].exists
        /\ Len(LastLines) = 1
        /\ last.pre.inv[LastLines[1].id].exists
        /\ LastLines[1].quantity = last.pre.inv[LastLines[1].id].quantity)
       => /\ last.result.ok
          /\ last.post.inv[LastLines[1].id].quantity = 0

\* A call has sold the last units of A while another call, which read A before
\* that, still waits to commit.
C2_Witness ==
    /\ last.result.ok
    /\ ~multi
    /\ sold["A"] = InitQuantity("A")
    /\ inv["A"].quantity = 0
    /\ \E p \in Procs :
          /\ pc[p] = "commit"
          /\ "A" \in ReadItems(call[p], snap[p])
          /\ Conflict(call[p], snap[p], Store)

\* C3 as stated: a complete_order call on an order that is already completed
\* changes no quantity, appends no history entry and leaves completed_at.
C3_CompletedIsTerminal ==
    (/\ LastIsComplete
     /\ last.pre.orders[last.call.order_id].exists
     /\ last.pre.orders[last.call.order_id].status = "completed")
    => LastUnchanged

\* C4: a successful complete_order appends history entries whose
\* quantity_change sums to minus the quantities of the order's lines, and leaves
\* the order completed with completed_at set to the time of the call.
C4_HistoryMatchesOrder ==
    (LastIsComplete /\ last.result.ok)
    => /\ \A i \in Items :
            /\ SubSeq(last.post.hist[i], 1, Len(last.pre.hist[i])) = last.pre.hist[i]
            /\ AppendedChange(i) = 0 - Requested(LastLines, i)
       /\ last.post.orders[last.call.order_id].status = "completed"
       /\ last.post.orders[last.call.order_id].completed_at = last.call.time
       /\ last.post.orders[last.call.order_id].completed_at # None

\* An order with two lines was completed.
C4_Witness ==
    /\ LastIsComplete
    /\ last.result.ok
    /\ Len(LastLines) = 2
    /\ last.pre.orders[last.call.order_id].status = "processing"

\* Item i has a direct-sale history entry of sale d in the history h.
HasSaleEntry(h, i, d) ==
    \E k \in 1..Len(h[i]) : h[i][k].type = "Venta Directa" /\ h[i][k].details = d

\* C5: the order document of a sale id exists exactly when direct-sale history
\* entries of that sale exist; a successful process_direct_sale leaves the
\* order document, the decrement and the history entry of every item it named,
\* and a failed one leaves the store as it was.
C5_SaleRecordWithDecrement ==
    /\ \A d \in SaleIds : orders[d].exists <=> \E i \in Items : HasSaleEntry(hist, i, d)
    /\ LastIsSale =>
          IF last.result.ok
          THEN /\ last.post.orders[last.call.order_id].exists
               /\ last.post.orders[last.call.order_id].status = "completed"
               /\ \A k \in 1..Len(LastLines) :
                     /\ last.post.inv[LastLines[k].id].quantity
                           < last.pre.inv[LastLines[k].id].quantity
                     /\ Len(Appended(LastLines[k].id)) > 0
                     /\ \A j \in 1..Len(Appended(LastLines[k].id)) :
                           /\ Appended(LastLines[k].id)[j].type = "Venta Directa"
                           /\ Appended(LastLines[k].id)[j].details = last.call.order_id
          ELSE LastUnchanged

\* A sale was recorded with its history entries, and a later sale of the same
\* id was refused after its first line had passed validation.
C5_Witness ==
    /\ LastIsSale
    /\ ~last.result.ok
    /\ last.result.kind = "InsufficientStock"
    /\ Len(LastLines) = 2
    /\ ~AsksTooMuch(1) /\ ~NamesMissing(1)
    /\ orders[last.call.order_id].exists
    /\ HasSaleEntry(hist, "A", last.call.order_id)

\* C6: the order a successful process_direct_sale creates is priced from the
\* store: price is the sum of the store's sale_price times the quantity sold,
\* and every stored line carries the store's sale_price and purchase_price.
C6_StorePrices ==
    (LastIsSale /\ last.result.ok)
    => LET o == last.post.orders[last.call.order_id]
       IN  /\ o.price = SumSeq([k \in 1..Len(LastLines) |->
                             last.pre.inv[LastLines[k].id].sale_price * LastLines[k].quantity])
           /\ Len(o.ingredients) = Len(LastLines)
           /\ \A k \in 1..Len(LastLines) :
                 /\ o.ingredients[k].id = LastLines[k].id
                 /\ o.ingredients[k].quantity = LastLines[k].quantity
                 /\ o.ingredients[k].sale_price = last.pre.inv[LastLines[k].id].sale_price
                 /\ o.ingredients[k].purchase_price
                       = last.pre.inv[LastLines[k].id].purchase_price

\* A sale of two items succeeded although the caller attached other prices.
C6_Witness ==
    /\ LastIsSale
    /\ last.result.ok
    /\ Len(LastLines) = 2
    /\ LastLines[1].id # LastLines[2].id
    /\ \A k \in 1..2 : LastLines[k].sale_price # last.pre.inv[LastLines[k].id].sale_price

\* C7 as stated: a successful call returns an alert for an item it named
\* exactly when the item's threshold is positive and the item's quantity after
\* the call is positive and at most the threshold.
C7_AlertIffLowStock ==
    (last.call.op # "none" /\ last.result.ok)
    => \A k \in 1..Len(LastLines) :
          LET i == LastLines[k].id
              m == last.pre.inv[i].min_stock_alert
              q == last.post.inv[i].quantity
          IN  (\E a \in 1..Len(last.result.alerts) : last.result.alerts[a].item = i)
              <=> (m > 0 /\ 0 < q /\ q <= m)

\* C8: a call on a missing order, a call with a line that names a missing item
\* and a call in which the store fails all return (false, message, []) without
\* raising and leave the store unchanged.
C8_FailClosed ==
    (/\ last.call.op # "none"
     /\ \/ LastIsComplete /\ ~last.pre.orders[last.call.order_id].exists
        \/ \E k \in 1..Len(LastLines) : NamesMissing(k)
        \/ LastStoreFailed)
    => /\ ~last.result.raised
       /\ ~last.result.ok
       /\ last.result.kind \in {"OrderNotFound", "ItemNotFound", "InsufficientStock",
                                "StoreError"}
       /\ last.result.alerts = <<>>
       /\ LastUnchanged

\* An order whose first line could be served and whose second line names an
\* item that no longer exists was refused.
C8_Witness ==
    /\ LastIsComplete
    /\ last.result.kind = "ItemNotFound"
    /\ NamesMissing(2)
    /\ ~NamesMissing(1)

\* With C7: for the calls that name every item in one line, the alerts returned
\* are exactly those of the items whose threshold is positive and whose
\* quantity after the call is positive and at most the threshold.
AlertIffLowStockSingleLines ==
    (last.call.op # "none" /\ last.result.ok /\ ~NamesTwice(LastLines))
    => \A k \in 1..Len(LastLines) :
          LET i == LastLines[k].id
              m == last.pre.inv[i].min_stock_alert
              q == last.post.inv[i].quantity
          IN  (\E a \in 1..Len(last.result.alerts) : last.result.alerts[a].item = i)
              <=> (m > 0 /\ 0 < q /\ q <= m)

(***************************************************************************)
(* Properties of firestore_retry                                           *)
(***************************************************************************)
RECURSIVE Pow2(_)
Pow2(n) == IF n = 0 THEN 1 ELSE 2 * Pow2(n - 1)

Failed == {k \in 1..Len(tried) : tried[k].kind = "raise"}

\* C9 as stated: when every attempt failed, the error the caller gets is an
\* error the wrapped operation raised.
C9_OriginalErrorPropagates ==
    rpc = "raised" =>
        /\ outcome.kind = "raise"
        /\ \E k \in Failed : tried[k].value = outcome.value

\* C10: the wrapped operation is invoked at most 3 times; an attempt that
\* returns is the last one and its result is what the wrapper returns; the
\* delay after the i-th failed attempt is 2^(i-1).
C10_BoundedAttemptsAndBackoff ==
    /\ invoked <= 3
    /\ invoked = Len(tried)
    /\ \A k \in 1..Len(tried) :
          tried[k].kind = "return" =>
             /\ k = Len(tried)
             /\ rpc = "returned"
             /\ outcome = tried[k]
    /\ rpc = "returned" => tried # <<>> /\ tried[Len(tried)].kind = "return"
    /\ Len(slept) = IF rpc = "except" THEN Cardinality(Failed) - 1 ELSE Cardinality(Failed)
    /\ \A i \in 1..Len(slept) : slept[i] = Pow2(i - 1)

\* All three attempts failed and the wrapper slept 1, 2 and 4.
C10_Witness ==
    /\ rpc = "raised"
    /\ invoked = 3
    /\ slept = <<1, 2, 4>>

(***************************************************************************)
(* Properties of the ledger over line items and sale records               *)
(***************************************************************************)
\* C17 as stated: for every call that returns ok=true and every item it names,
\* the item's quantity after the call is its quantity before the call minus the
\* sum of the requested quantities of all the lines that name it, which is also
\* minus the sum of quantity_change of the history entries the call appended
\* to the item.
C17_DecrementBySum ==
    (last.call.op # "none" /\ last.result.ok)
    => \A i \in Items :
          Requested(LastLines, i) > 0 =>
             /\ last.post.inv[i].quantity
                   = last.pre.inv[i].quantity - Requested(LastLines, i)
             /\ AppendedChange(i) = 0 - Requested(LastLines, i)

\* Quantity of item i over the lines of the stored direct-sale orders.
RECURSIVE SoldInOrders(_, _, _)
SoldInOrders(o, ids, i) ==
    IF ids = {} THEN 0
    ELSE LET d == CHOOSE x \in ids : TRUE
         IN  (IF o[d].exists /\ o[d].is_direct_sale THEN Requested(o[d].ingredients, i) ELSE 0)
             + SoldInOrders(o, ids \ {d}, i)

\* Stock decrement recorded by the direct-sale history entries of item i.
DirectSaleDecrement(h, i) ==
    SumSeq([k \in 1..Len(h[i]) |->
               IF h[i][k].type = "Venta Directa" THEN 0 - h[i][k].quantity_change ELSE 0])

\* C18 as stated: for every item, the quantity of the item over the lines of
\* all stored direct-sale orders equals the stock decrement recorded by the
\* item's direct-sale history entries: no successful sale's order document is
\* overwritten by a later sale.
C18_SaleRecordsKept ==
    \A i \in Items : SoldInOrders(orders, DocIds, i) = DirectSaleDecrement(hist, i)

(***************************************************************************)
(* Properties of the repositories                                          *)
(***************************************************************************)
\* C11 as stated: a save_inventory_item call that has returned has appended
\* exactly one history entry to the item, also when earlier attempts failed,
\* of type "Stock Inicial" when is_new and "Ajuste Manual" otherwise, whose
\* quantity_change is the quantity the item had stored after the write, also
\* when data omits the quantity.
C11_OneEntryWithStoredQuantity ==
    save.pc = "returned" =>
        /\ Len(save.appended) = 1
        /\ save.appended[1].type = (IF save.is_new THEN "Stock Inicial" ELSE "Ajuste Manual")
        /\ save.appended[1].quantity_change = save.stored

\* With C11: a save whose data carries a quantity and whose attempts failed
\* only before anything was written appends one entry with that quantity.
OneEntryWhenQuantityGiven ==
    (save.pc = "returned" /\ save.data.quantity # None /\ Len(save.appended) = 1)
    => /\ save.appended[1].type = (IF save.is_new THEN "Stock Inicial" ELSE "Ajuste Manual")
       /\ save.appended[1].quantity_change = save.stored

\* ceil(n / batch_size)
Pages(n) == (n + batch_size - 1) \div batch_size

\* C12: with no concurrent writer, delete_inventory_item on an item with N
\* history entries issues at most N div 20 + 1 page queries and so terminates,
\* having committed exactly ceil(N/20) batches of 1 to 20 deletions each, N in
\* all, and then deleted the item document once; the item document is deleted
\* only when no history entry of the item remains.
C12_DeleteInBatches ==
    /\ del.queries <= del.n0 \div batch_size + 1
    /\ del.doc_deletes <= 1
    /\ \A k \in 1..Len(del.commits) : 1 <= del.commits[k] /\ del.commits[k] <= batch_size
    /\ del.doc_deletes = 1 =>
          /\ hist[del.doc_id] = <<>>
          /\ Len(del.commits) = Pages(del.n0)
    /\ del.pc = "returned" =>
          /\ del.doc_deletes = 1
          /\ Len(del.commits) = Pages(del.n0)
          /\ SumSeq(del.commits) = del.n0
          /\ hist[del.doc_id] = <<>>
          /\ ~inv[del.doc_id].exists

\* An item whose history filled exactly two pages was deleted: two batches
\* were committed and a third query found nothing.
C12_Witness ==
    /\ del.pc = "returned"
    /\ del.n0 = 2 * batch_size
    /\ del.commits = <<batch_size, batch_size>>
    /\ del.queries = 3

\* C13 as stated: cancel_order deletes an order document only when the order's
\* status is not completed, so no order whose stock was decremented has had
\* its document deleted by cancel_order.
C13_CancelOnlyUncompleted ==
    \A d \in DocIds : cancelled[d] # "completed"

\* The step changes the quantity of item i, which exists before and after it.
QuantityChanged(i) ==
    inv[i].exists /\ inv'[i].exists /\ inv'[i].quantity # inv[i].quantity

\* The step changes the status or completed_at of order d, which exists before
\* and after it.
OrderChanged(d) ==
    /\ orders[d].exists /\ orders'[d].exists
    /\ \/ orders'[d].status # orders[d].status
       \/ orders'[d].completed_at # orders[d].completed_at

\* The step is the return of a complete_order or process_direct_sale call
\* with ok=true.
LedgerReturnsOk == last' # last /\ last'.result.ok

\* The step is the set() of a save_inventory_item call on item i whose data
\* carries a quantity, and it stores that quantity.
SaveWritesQuantity(i) ==
    /\ save.pc = "set" /\ save'.pc = "add"
    /\ save.custom_id = i
    /\ save.data.quantity # None
    /\ inv'[i].quantity = save.data.quantity

HistorySum(h, k) ==
    SumSeq([j \in 1..(Len(h) - k + 1) |->
               LET e == h[j + k - 1]
               IN  IF e.type \in {"Stock Inicial", "Ajuste Manual"} /\ e.quantity_change = None
                   THEN 0
                   ELSE e.quantity_change])

\* C15 as stated: for every item that has its history since its creation (the
\* first entry is the "Stock Inicial" one, which records the initial
\* quantity), the sum of quantity_change over the entries after it equals the
\* item's current quantity minus its initial quantity.
C15_HistorySumsToQuantity ==
    \A i \in Items :
       (inv[i].exists /\ hist[i] # <<>> /\ hist[i][1].type = "Stock Inicial")
       => HistorySum(hist[i], 2) = inv[i].quantity - hist[i][1].quantity_change

\* C16 as stated: the order persisted by create_order carries the store's
\* prices: every line whose item exists has the item's sale_price and
\* purchase_price as they were in the store when the order was created, and
\* when all its items exist the order's price is the sum of the store's
\* sale_price times the quantity over its lines, whatever the caller supplied.
C16_CreatedWithStorePrices ==
    (created.id # "" /\ orders[created.id].exists)
    => LET o == orders[created.id]
           n == Len(o.ingredients)
           item(k) == created.inv[o.ingredients[k].id]
       IN  /\ \A k \in 1..n :
                 item(k).exists =>
                    /\ o.ingredients[k].sale_price = item(k).sale_price
                    /\ o.ingredients[k].purchase_price = item(k).purchase_price
           /\ (\A k \in 1..n : item(k).exists) =>
                 o.price = SumSeq([k \in 1..n |->
                                     item(k).sale_price * o.ingredients[k].quantity])

\* With C16: the lines of the created order whose item exists carry the
\* store's prices.
CreatedLinesEnriched ==
    (created.id # "" /\ orders[created.id].exists)
    => \A k \in 1..Len(orders[created.id].ingredients) :
          LET ing == orders[created.id].ingredients[k]
          IN  created.inv[ing.id].exists =>
                 /\ ing.sale_price = created.inv[ing.id].sale_price
                 /\ ing.purchase_price = created.inv[ing.id].purchase_price

\* C19 as stated: once delete_inventory_item(id) has returned and every
\* concurrent complete_order, process_direct_sale and save_inventory_item call
\* has finished, either the item document exists or its history is empty: no
\* history entry is left under a deleted item.
C19_NoOrphanHistory ==
    (/\ del.pc = "returned"
     /\ \A p \in Procs : pc[p] = "idle"
     /\ save.pc \in {"idle", "returned", "raised"})
    => \/ inv[del.doc_id].exists
       \/ hist[del.doc_id] = <<>>

====
